---- MODULE Spec2Model ----
(***************************************************************************)
(* KritaHelper (src/main.py): the time tracker (KritaTimeTracker), the two *)
(* persisted artifacts krita_time.json / krita_log.json, and the loaders   *)
(* of the statistics viewer (Statistics).                                   *)
(*                                                                         *)
(* Time is fixed-point: one clock unit is 1/UnitsPerSec second, so that    *)
(* time.time() readings with sub-second resolution and their differences   *)
(* are exact (the float subtractions of the code are exact on such values).*)
(* A calendar date is the index of the day the clock reading falls in.     *)
(***************************************************************************)
EXTENDS Integers, Sequences, FiniteSets, TLC

\* ------------------------------------------------------------------ bounds
UnitsPerSec == 2      \* clock units per second (resolution of time.time())
MaxSeconds  == 4      \* the clock stops the model after this many seconds
MaxJitter   == 1      \* a sleep may overshoot by up to this many clock units
DayLen      == 3      \* seconds per calendar day of the model (scaled down)
MaxRestarts == 1      \* how many times a new tracker is constructed again
MaxProcs    == 2      \* entries of the process table at one scan
MaxDown     == 1      \* seconds the tracker may stay down before a restart

\* --------------------------------------------------------------- constants
PollInterval == 1     \* time.sleep(1): seconds between two ticks

PollUnits == PollInterval * UnitsPerSec
MaxClock  == MaxSeconds * UnitsPerSec

KRITA_PROCESS_NAME == "krita.exe"

VARIABLES
    clock,          \* wall clock, in clock units (time.time(), datetime.now())
    time_file,      \* content of krita_time.json
    log_file,       \* content of krita_log.json
    total_seconds,  \* KritaTimeTracker.total_seconds (clock units)
    is_running,     \* KritaTimeTracker.is_running: FALSE = Idle, TRUE = Active
    start_time,     \* KritaTimeTracker.start_time: << >> is None, <<t>> a value
    daily_log,      \* KritaTimeTracker.daily_log
    now,            \* local `now` of track()
    running,        \* local `running` of track()
    event,          \* what the tick printed: "none", "started", "stopped"
    pc,             \* position of the tracker
    mode,           \* "ctor", "loop", "KeyboardInterrupt", "Exception"
    gen,            \* number of trackers constructed after the first
    hist,           \* bookkeeping of what happened, read by the properties only
    v_total_seconds,  \* Statistics.total_seconds (whole seconds)
    v_average,        \* Statistics.average
    v_most_in_1_day,  \* Statistics.most_in_1_day
    v_daily_log,      \* Statistics.daily_log
    v_pc,             \* position of the viewer
    v_mode,           \* "off" (no viewer), "ctor" (__init__), "loop" (display_stats)
    v_read,           \* what the viewer's last loads read, for the properties
    v_shown,          \* the three values and tiers of the last display
    v_prev,           \* the display before the last one, for the properties
    scan_procs,       \* the process table of the last scan, when it is recorded
    scan_result       \* what that scan returned or raised

\* the artifacts, the clock and the tracker
tvars == <<clock, time_file, log_file, total_seconds, is_running, start_time,
           daily_log, now, running, event, pc, mode, gen, hist>>

\* the statistics viewer
vvars == <<v_total_seconds, v_average, v_most_in_1_day, v_daily_log, v_pc,
           v_mode, v_read, v_shown, v_prev>>

\* the recorded process scan
svars == <<scan_procs, scan_result>>

vars == <<tvars, vvars, svars>>

\* ------------------------------------------------------- artifact contents
EmptyMap == [d \in {} |-> 0]

\* krita_time.json: kind "missing" (no file), "malformed" (empty, truncated or
\* otherwise not JSON), "list" (well-formed JSON that is not an object),
\* "nokey" (an object without total_seconds), "object" ({"total_seconds": val}).
TimeContent(k, v) == [kind |-> k, val |-> v]

\* krita_log.json: kind "missing", "malformed", "list", or "dict" with map the
\* mapping date -> count.
LogContent(k, m) == [kind |-> k, map |-> m]

\* json.dump({"total_seconds": self.total_seconds}, f)
DumpTime(t) == TimeContent("object", t)

\* json.dump(self.daily_log, f): a dict is written as an object, a list as a list
DumpLog(l) == LogContent(l.kind, l.map)

InitTimeFiles ==
    { TimeContent("missing", 0), TimeContent("malformed", 0),
      TimeContent("list", 0), TimeContent("nokey", 0),
      TimeContent("object", 0), TimeContent("object", 2 * UnitsPerSec) }

InitLogFiles ==
    { LogContent("missing", EmptyMap), LogContent("malformed", EmptyMap),
      LogContent("list", EmptyMap), LogContent("dict", EmptyMap),
      LogContent("dict", [d \in {0} |-> 2]) }

\* datetime.now().strftime("%Y-%m-%d"): the calendar date of a clock reading
Today(t) == t \div (DayLen * UnitsPerSec)

\* ------------------------------------------------------------ process scan
ProcNames == {"krita.exe", "Krita.EXE", "python.exe"}
\* an entry is a name, "None" (psutil could not read the name: info['name'] is
\* None), or raises NoSuchProcess / AccessDenied when it is inspected
ProcEntries == ProcNames \cup {"None", "NoSuchProcess", "AccessDenied"}

Lower(s) == IF s = "Krita.EXE" THEN "krita.exe" ELSE s

RECURSIVE ScanFrom(_, _, _)
\* the for loop of is_krita_running from entry i on: "true", "false", or
\* "AttributeError" (None has no .lower(); no except clause catches it)
ScanFrom(procs, i, name) ==
    IF i > Len(procs) THEN "false"
    ELSE IF procs[i] \in {"NoSuchProcess", "AccessDenied"}
         THEN ScanFrom(procs, i + 1, name)
    ELSE IF procs[i] = "None" THEN "AttributeError"
    ELSE IF Lower(procs[i]) = Lower(name) THEN "true"
    ELSE ScanFrom(procs, i + 1, name)

is_krita_running(procs) == ScanFrom(procs, 1, KRITA_PROCESS_NAME)

ProcTables == UNION { [1..n -> ProcEntries] : n \in 0..MaxProcs }

\* what one scan can answer, over every process table
ScanResults == { is_krita_running(procs) : procs \in ProcTables }

\* ------------------------------------------------------------------- Init
InitHist ==
    [ ticks |-> 0, pre_total |-> 0, pre_running |-> FALSE,
      exact |-> TRUE, all_running |-> TRUE, first_now |-> 0,
      loaded |-> 0, loaded_log |-> LogContent("dict", EmptyMap),
      sessions |-> 0, sess_t1 |-> 0, sess_base |-> 0, frozen |-> 0,
      ended |-> "none", prev_ended |-> "none", prev_total |-> 0,
      prev_clean |-> TRUE,
      failed |-> {}, prev_failed |-> {},
      read_time |-> TimeContent("missing", 0),
      final_attempts |-> {}, final_ok |-> {},
      pre_log |-> LogContent("dict", EmptyMap),
      pre_log_file |-> LogContent("missing", EmptyMap),
      pre_time_file |-> TimeContent("missing", 0),
      pre_start |-> << >>, stops |-> 0 ]

\* nothing displayed yet
NoShow == [shown |-> FALSE, average |-> 0, average_tier |-> "none",
           total |-> 0, total_tier |-> "none",
           most |-> 0, most_tier |-> "none"]

\* Statistics.__init__, lines 169-175, up to the two loads; on says whether
\* the viewer was started at all
StatsInit(on) ==
    /\ v_total_seconds = 0
    /\ v_average = 0
    /\ v_most_in_1_day = 0
    /\ v_daily_log = LogContent("dict", EmptyMap)
    /\ v_pc = "load_log"
    /\ v_mode = IF on THEN "ctor" ELSE "off"
    /\ v_read = [time |-> "none", log |-> "none"]
    /\ v_shown = NoShow
    /\ v_prev = NoShow

\* KritaTimeTracker.__init__ up to the two loads
TrackerInit ==
    /\ clock = 0
    /\ time_file \in InitTimeFiles
    /\ log_file \in InitLogFiles
    /\ total_seconds = 0
    /\ is_running = FALSE
    /\ start_time = << >>
    /\ daily_log = LogContent("dict", EmptyMap)
    /\ now = 0
    /\ running = FALSE
    /\ event = "none"
    /\ pc = "load_time"
    /\ mode = "ctor"
    /\ gen = 0
    /\ hist = InitHist
    /\ scan_procs = << >>
    /\ scan_result = "none"

\* KritaTimeTracker.__init__ up to the two loads; no viewer runs
Init ==
    /\ StatsInit(FALSE)
    /\ TrackerInit

\* ------------------------------------------------------------ the loaders
\* What a loader read: the artifact's kind, or "unreadable" when open() or
\* read() raised IOError on an existing file.
Seen(file, ioerr) ==
    IF file.kind # "missing" /\ ioerr THEN "unreadable" ELSE file.kind

\* a load that never takes the stored value
TrackerLoadTimeDropsValue(file, ioerr, cur) == [raised |-> FALSE, val |-> 0]

\* KritaTimeTracker.load_time: the value of total_seconds after the load, cur
\* the value before it; raised when data.get fails on JSON that is no object
\* (AttributeError is not in the except clause).
TrackerLoadTime(file, ioerr, cur) ==
    CASE file.kind = "missing"   -> [raised |-> FALSE, val |-> cur]
      [] ioerr                   -> [raised |-> FALSE, val |-> 0]
      [] file.kind = "malformed" -> [raised |-> FALSE, val |-> 0]
      [] file.kind = "list"      -> [raised |-> TRUE,  val |-> cur]
      [] file.kind = "nokey"     -> [raised |-> FALSE, val |-> 0]
      [] OTHER                   -> [raised |-> FALSE, val |-> file.val]

\* KritaTimeTracker.load_log: the value of daily_log after the load
TrackerLoadLog(file, ioerr) ==
    CASE file.kind = "missing"   -> LogContent("dict", EmptyMap)
      [] ioerr                   -> LogContent("dict", EmptyMap)
      [] file.kind = "malformed" -> LogContent("dict", EmptyMap)
      [] OTHER                   -> LogContent(file.kind, file.map)

\* self.load_time() of __init__ (line 39)
LoadTime ==
    /\ pc = "load_time"
    /\ \E ioerr \in BOOLEAN :
         LET r == TrackerLoadTime(time_file, ioerr, total_seconds) IN
         /\ total_seconds' = r.val
         /\ pc' = IF r.raised THEN "crashed" ELSE "load_log"
         /\ hist' = [hist EXCEPT !.loaded = r.val, !.frozen = r.val,
                                 !.read_time = IF Seen(time_file, ioerr) = "unreadable"
                                               THEN TimeContent("unreadable", 0)
                                               ELSE time_file,
                                 !.ended = IF r.raised THEN "crashed" ELSE @]
    /\ UNCHANGED <<clock, time_file, log_file, is_running, start_time,
                   daily_log, now, running, event, mode, gen>>
    /\ UNCHANGED <<vvars, svars>>

\* self.load_log() of __init__ (line 40), then main() calls track()
LoadLog ==
    /\ pc = "load_log"
    /\ \E ioerr \in BOOLEAN :
         /\ daily_log' = TrackerLoadLog(log_file, ioerr)
         /\ hist' = [hist EXCEPT !.loaded_log = TrackerLoadLog(log_file, ioerr)]
    /\ pc' = "loop"
    /\ mode' = "loop"
    /\ UNCHANGED <<clock, time_file, log_file, total_seconds, is_running,
                   start_time, now, running, event, gen>>
    /\ UNCHANGED <<vvars, svars>>

\* ------------------------------------------------------------- one tick
\* a session anchored at its own start: the total loaded or accumulated before
\* it is forgotten
AnchorForgetsTotal(n, t) == n

\* line 103: the anchor of a session that starts at n with total t
Anchor(n, t) == n - t

\* the total counted one polling interval too far
ElapsedPlusInterval(n, st) == n - st + PollUnits

\* the total counted from the anchor backwards
ElapsedReversed(n, st) == st - n

\* lines 108 and 112: the total at n of a session anchored at st
Elapsed(n, st) == n - st

\* a start on every tick taken Idle, whatever the scan answered
StartsWhenIdle(r, active) == ~active

\* a start on every tick that sees the process, Active or not
StartsOnRunning(r, active) == r

\* line 101: Idle -> Active
Starts(r, active) == r /\ ~active

\* line 106: Active -> Idle
Stops(r, active) == ~r /\ active

\* the total recomputed on every tick once an anchor exists, Idle or not
RecomputesWhenAnchored(act, stops, st) == st # << >>

\* the stop tick leaving the total as the last Active tick computed it
RecomputesOnlyActive(act, stops, st) == act

\* lines 106-112: the ticks that recompute the total from the anchor st are the
\* stop tick (line 108) and every tick that ends Active (line 112)
Recomputes(act, stops, st) == stops \/ act

\* the daily log updated on every tick
AfterObserveAlways(act) == "update_daily_log"

\* line 111, `if self.is_running:`: update_daily_log() of line 113 when the
\* tick ends Active, else straight to save_time() of line 122
AfterObserve(act) == IF act THEN "update_daily_log" ELSE "save_time"

\* line 116 on a tick that ends Idle: get_today_seconds() calls .get on the
\* daily log, and a list has none: AttributeError, caught by `except
\* Exception`. (On a tick that ends Active update_daily_log raises first.)
DisplayRaises(act, log) == ~act /\ log.kind = "list"

\* lines 98-112 of track(): read the clock, scan the processes, move the state
\* machine and recompute the total; on a tick that ends Idle also the display
\* of lines 115-120
ObserveWith(r) ==
    /\ pc = "loop"
    /\ now' = clock
    /\   IF r = "AttributeError"
         THEN /\ pc' = "save_time"
              /\ mode' = "Exception"
              /\ hist' = [hist EXCEPT !.ended = "fault",
                                      !.pre_log = daily_log,
                                      !.pre_log_file = log_file,
                                      !.pre_time_file = time_file]
              /\ UNCHANGED <<total_seconds, is_running, start_time, running, event>>
         ELSE LET run == (r = "true")
                  st  == IF Starts(run, is_running)
                         THEN <<Anchor(clock, total_seconds)>>
                         ELSE start_time
                  act == IF Starts(run, is_running) THEN TRUE
                         ELSE IF Stops(run, is_running) THEN FALSE
                         ELSE is_running
                  tot == IF Recomputes(act, Stops(run, is_running), st)
                         THEN Elapsed(clock, st[1])
                         ELSE total_seconds
              IN
              /\ running' = run
              /\ start_time' = st
              /\ is_running' = act
              /\ total_seconds' = tot
              /\ event' = IF Starts(run, is_running) THEN "started"
                          ELSE IF Stops(run, is_running) THEN "stopped"
                          ELSE "none"
              /\ pc' = IF DisplayRaises(act, daily_log) THEN "save_time"
                       ELSE AfterObserve(act)
              /\ mode' = IF DisplayRaises(act, daily_log) THEN "Exception" ELSE mode
              /\ hist' = [hist EXCEPT
                    !.ended = IF DisplayRaises(act, daily_log) THEN "fault" ELSE @,
                    !.pre_start = start_time,
                    !.stops = IF Stops(run, is_running) THEN @ + 1 ELSE @,
                    !.ticks = @ + 1,
                    !.pre_total = total_seconds,
                    !.pre_running = is_running,
                    !.all_running = @ /\ run,
                    !.first_now = IF hist.ticks = 0 THEN clock ELSE @,
                    !.sessions = IF Starts(run, is_running) THEN @ + 1 ELSE @,
                    !.sess_t1 = IF Starts(run, is_running) THEN clock ELSE @,
                    !.sess_base = IF Starts(run, is_running) THEN total_seconds ELSE @,
                    !.frozen = IF Stops(run, is_running) THEN tot ELSE @,
                    !.prev_failed = hist.failed,
                    !.failed = {},
                    !.pre_log = daily_log,
                    !.pre_log_file = log_file,
                    !.pre_time_file = time_file ]
    /\ UNCHANGED <<clock, time_file, log_file, daily_log, gen>>
    /\ UNCHANGED vvars

\* the tick of track() with any outcome of the process scan
Observe ==
    /\ \E r \in ScanResults : ObserveWith(r)
    /\ UNCHANGED svars

\* the same tick, the scanned process table kept for the properties
ObserveProcs ==
    \E procs \in ProcTables :
        /\ ObserveWith(is_krita_running(procs))
        /\ scan_procs' = procs
        /\ scan_result' = is_krita_running(procs)

\* dict.get(today, 0)
Get(m, d) == IF d \in DOMAIN m THEN m[d] ELSE 0

\* today's bucket restarted at 1 on every tick
IncrementFromZero(m, d) == [k \in DOMAIN m \cup {d} |-> IF k = d THEN 1 ELSE m[k]]

\* a log rebuilt with today's bucket alone
IncrementKeepsToday(m, d) == [k \in {d} |-> Get(m, d) + 1]

\* today's bucket raised by two
IncrementTwice(m, d) == [k \in DOMAIN m \cup {d} |-> IF k = d THEN Get(m, d) + 2 ELSE m[k]]

\* line 86: self.daily_log[today] = int(self.daily_log.get(today, 0) + 1)
Increment(m, d) == [k \in DOMAIN m \cup {d} |-> IF k = d THEN Get(m, d) + 1 ELSE m[k]]

\* lines 85-86 of update_daily_log; a list has no .get: AttributeError, which
\* track() catches with `except Exception`
UpdateDailyLog ==
    /\ pc = "update_daily_log"
    /\ IF daily_log.kind = "dict"
       THEN /\ daily_log' = LogContent("dict", Increment(daily_log.map, Today(clock)))
            /\ pc' = "save_log"
            /\ UNCHANGED <<mode, hist>>
       ELSE /\ pc' = "save_time"
            /\ mode' = "Exception"
            /\ hist' = [hist EXCEPT !.ended = "fault"]
            /\ UNCHANGED daily_log
    /\ UNCHANGED <<clock, time_file, log_file, total_seconds, is_running,
                   start_time, now, running, event, gen>>
    /\ UNCHANGED <<vvars, svars>>

\* --------------------------------------------------------------- the saves
\* the handler of `except Exception` returning after save_time()
AfterSaveTimeFaultSkipsLog(m) ==
    IF m = "loop" THEN "sleep" ELSE IF m = "Exception" THEN "done" ELSE "save_log"

\* where control goes after save_time(): line 123 in the loop, save_log() in
\* either handler (lines 127-128, 131-132)
AfterSaveTime(m) == IF m = "loop" THEN "sleep" ELSE "save_log"

\* where control goes after save_log(): save_time() of line 122 in the loop
\* (update_daily_log returns, nothing is left of the tick but the display),
\* the end of track() in either handler
AfterSaveLog(m) == IF m = "loop" THEN "save_time" ELSE "done"

\* what the bookkeeping records of a save that was called
Called(h, m, what, fails) ==
    [h EXCEPT !.final_attempts = IF m = "loop" THEN @ ELSE @ \cup {what},
              !.failed = IF fails THEN @ \cup {what} ELSE @]

\* what the bookkeeping records of a save of a handler that completed
Written(h, m, what) ==
    [h EXCEPT !.final_ok = IF m = "loop" THEN @ ELSE @ \cup {what}]

\* save_time, line 53: open(self.time_file, "w") truncates the file
SaveTimeOpen ==
    /\ pc = "save_time"
    /\ time_file' = TimeContent("malformed", 0)
    /\ pc' = "save_time_dump"
    /\ hist' = Called(hist, mode, "time", FALSE)
    /\ UNCHANGED <<clock, log_file, total_seconds, is_running, start_time,
                   daily_log, now, running, event, mode, gen>>
    /\ UNCHANGED <<vvars, svars>>

\* save_time, lines 55-56: open() raises IOError and leaves the file alone, or
\* the write raises IOError and leaves it truncated; the warning is printed
\* and save_time returns
SaveTimeFails ==
    /\ pc = "save_time"
    /\ \E outcome \in {"open_fails", "write_fails"} :
         time_file' = IF outcome = "open_fails" THEN time_file
                      ELSE TimeContent("malformed", 0)
    /\ pc' = AfterSaveTime(mode)
    /\ hist' = Called(hist, mode, "time", TRUE)
    /\ UNCHANGED <<clock, log_file, total_seconds, is_running, start_time,
                   daily_log, now, running, event, mode, gen>>
    /\ UNCHANGED <<vvars, svars>>

\* save_time, line 54: json.dump and the close of the file
SaveTimeDump ==
    /\ pc = "save_time_dump"
    /\ time_file' = DumpTime(total_seconds)
    /\ pc' = AfterSaveTime(mode)
    /\ hist' = Written(hist, mode, "time")
    /\ UNCHANGED <<clock, log_file, total_seconds, is_running, start_time,
                   daily_log, now, running, event, mode, gen>>
    /\ UNCHANGED <<vvars, svars>>

\* save_log, line 70
SaveLogOpen ==
    /\ pc = "save_log"
    /\ log_file' = LogContent("malformed", EmptyMap)
    /\ pc' = "save_log_dump"
    /\ hist' = Called(hist, mode, "log", FALSE)
    /\ UNCHANGED <<clock, time_file, total_seconds, is_running, start_time,
                   daily_log, now, running, event, mode, gen>>
    /\ UNCHANGED <<vvars, svars>>

\* save_log, lines 72-73
SaveLogFails ==
    /\ pc = "save_log"
    /\ \E outcome \in {"open_fails", "write_fails"} :
         log_file' = IF outcome = "open_fails" THEN log_file
                     ELSE LogContent("malformed", EmptyMap)
    /\ pc' = AfterSaveLog(mode)
    /\ hist' = Called(hist, mode, "log", TRUE)
    /\ UNCHANGED <<clock, time_file, total_seconds, is_running, start_time,
                   daily_log, now, running, event, mode, gen>>
    /\ UNCHANGED <<vvars, svars>>

\* save_log, line 71
SaveLogDump ==
    /\ pc = "save_log_dump"
    /\ log_file' = DumpLog(daily_log)
    /\ pc' = AfterSaveLog(mode)
    /\ hist' = Written(hist, mode, "log")
    /\ UNCHANGED <<clock, time_file, total_seconds, is_running, start_time,
                   daily_log, now, running, event, mode, gen>>
    /\ UNCHANGED <<vvars, svars>>

\* line 123: time.sleep(1) returns after one second or a little more
Sleep ==
    /\ pc = "sleep"
    /\ \E j \in 0..MaxJitter :
         /\ clock + PollUnits + j <= MaxClock
         /\ clock' = clock + PollUnits + j
         /\ hist' = [hist EXCEPT !.exact = @ /\ j = 0]
    /\ pc' = "loop"
    /\ UNCHANGED <<time_file, log_file, total_seconds, is_running, start_time,
                   daily_log, now, running, event, mode, gen>>
    /\ UNCHANGED <<vvars, svars>>

\* ------------------------------------------------------- how the loop ends
LoopPcs == {"loop", "update_daily_log", "save_log", "save_log_dump",
            "save_time", "save_time_dump", "sleep"}

\* Ctrl+C at any point of a tick: `except KeyboardInterrupt`, lines 125-128.
\* A file that was open for writing is closed as it is (truncated).
Interrupt ==
    /\ mode = "loop"
    /\ pc \in LoopPcs
    /\ mode' = "KeyboardInterrupt"
    /\ pc' = "save_time"
    /\ hist' = [hist EXCEPT !.ended = "interrupt"]
    /\ UNCHANGED <<clock, time_file, log_file, total_seconds, is_running,
                   start_time, daily_log, now, running, event, gen>>
    /\ UNCHANGED <<vvars, svars>>

\* the process is killed (SIGKILL, power loss): no handler runs
Kill ==
    /\ pc \notin {"done", "killed", "crashed"}
    /\ pc' = "killed"
    /\ hist' = [hist EXCEPT !.ended = "killed"]
    /\ UNCHANGED <<clock, time_file, log_file, total_seconds, is_running,
                   start_time, daily_log, now, running, event, mode, gen>>
    /\ UNCHANGED <<vvars, svars>>

\* main() is run again: KritaTimeTracker.__init__, lines 30-38
Restart ==
    /\ pc \in {"done", "killed", "crashed"}
    /\ gen < MaxRestarts
    /\ gen' = gen + 1
    /\ \E d \in 0..MaxDown :
         /\ clock + d * UnitsPerSec <= MaxClock
         /\ clock' = clock + d * UnitsPerSec
    /\ total_seconds' = 0
    /\ is_running' = FALSE
    /\ start_time' = << >>
    /\ daily_log' = LogContent("dict", EmptyMap)
    /\ event' = "none"
    /\ pc' = "load_time"
    /\ mode' = "ctor"
    /\ hist' = [InitHist EXCEPT !.prev_ended = hist.ended,
                                !.prev_total = total_seconds,
                                !.prev_clean = hist.exact]
    /\ UNCHANGED <<time_file, log_file, now, running>>
    /\ UNCHANGED <<vvars, svars>>

\* one tracker step without I/O failures and without kills
Tick ==
    \/ LoadTime
    \/ LoadLog
    \/ Observe
    \/ UpdateDailyLog
    \/ SaveLogOpen
    \/ SaveLogDump
    \/ SaveTimeOpen
    \/ SaveTimeDump
    \/ Sleep

\* One execution of the tracker, ended by Ctrl+C or by a fault; every write
\* succeeds.
Next ==
    \/ Tick
    \/ Interrupt

Spec == Init /\ [][Next]_vars

\* The tracker killed at any point and constructed again from the artifacts
\* it left; every write succeeds.
InitCrash ==
    /\ Init
    /\ time_file \in {TimeContent("missing", 0), TimeContent("object", 2 * UnitsPerSec)}
    /\ log_file = LogContent("dict", EmptyMap)

NextCrash ==
    \/ Tick
    \/ Kill
    \/ Restart

SpecCrash == InitCrash /\ [][NextCrash]_vars

\* One execution of the tracker on a disk whose writes can fail.
InitIO ==
    /\ Init
    /\ time_file = TimeContent("object", 2 * UnitsPerSec)
    /\ log_file \in {LogContent("dict", EmptyMap), LogContent("list", EmptyMap)}

NextIO ==
    \/ Tick
    \/ SaveTimeFails
    \/ SaveLogFails
    \/ Interrupt

SpecIO == InitIO /\ [][NextIO]_vars

\* One execution of the tracker on well-formed artifacts, every scanned
\* process table kept; every write succeeds.
InitScan ==
    /\ Init
    /\ time_file = TimeContent("object", 0)
    /\ log_file = LogContent("dict", EmptyMap)

NextScan ==
    \/ LoadTime
    \/ LoadLog
    \/ ObserveProcs
    \/ UpdateDailyLog
    \/ SaveLogOpen
    \/ SaveLogDump
    \/ SaveTimeOpen
    \/ SaveTimeDump
    \/ Sleep

SpecScan == InitScan /\ [][NextScan]_vars

\* ------------------------------------------------- the statistics viewer
\* int(a / b) for b > 0: Python's int() truncates towards zero
TruncDiv(a, b) == IF a >= 0 THEN a \div b ELSE -((-a) \div b)

RECURSIVE SumOver(_, _)
\* lines 197-199: the sum of the values of m at the keys ks
SumOver(m, ks) ==
    IF ks = {} THEN 0
    ELSE LET k == CHOOSE x \in ks : TRUE IN m[k] + SumOver(m, ks \ {k})

\* max(vals), line 202
MaxValue(m) == CHOOSE v \in {m[k] : k \in DOMAIN m} : \A k \in DOMAIN m : m[k] <= v

\* Statistics.load_time: total_seconds after the load, cur the value before it.
\* The stored value is in clock units; int() makes it whole seconds.
StatsLoadedTime(file, ioerr, cur) ==
    CASE file.kind = "missing"   -> [raised |-> FALSE, val |-> cur]
      [] ioerr                   -> [raised |-> FALSE, val |-> 0]
      [] file.kind = "malformed" -> [raised |-> FALSE, val |-> 0]
      [] file.kind = "list"      -> [raised |-> TRUE,  val |-> cur]
      [] file.kind = "nokey"     -> [raised |-> FALSE, val |-> 0]
      [] OTHER                   -> [raised |-> FALSE, val |-> TruncDiv(file.val, UnitsPerSec)]

\* Statistics.load_log: daily_log, average and most_in_1_day after the load,
\* avg and most the values before it. Only the branch that parsed a dict
\* assigns average and most_in_1_day; a list is assigned to daily_log and then
\* .values() raises AttributeError, which no except clause catches.
StatsLoadedLog(file, ioerr, avg, most) ==
    CASE file.kind = "missing" \/ ioerr \/ file.kind = "malformed" ->
            [raised |-> FALSE, log |-> LogContent("dict", EmptyMap),
             average |-> avg, most |-> most]
      [] file.kind = "list" ->
            [raised |-> TRUE, log |-> LogContent("list", EmptyMap),
             average |-> avg, most |-> most]
      [] OTHER ->
            LET n == Cardinality(DOMAIN file.map) IN
            [raised |-> FALSE, log |-> LogContent("dict", file.map),
             average |-> IF n # 0 THEN TruncDiv(SumOver(file.map, DOMAIN file.map), n)
                         ELSE 0,
             most |-> IF n # 0 THEN MaxValue(file.map) ELSE 0]

\* where the viewer goes after load_time: display_stats when __init__ is done
\* (line 397), the three ladders in the loop (line 213)
AfterStatsLoadTime(m) == IF m = "ctor" THEN "load_log" ELSE "show"

\* a load that leaves an empty log where it found no log it could parse
StatsLoadLogCreates(ioerr) ==
    /\ v_mode \in {"ctor", "loop"}
    /\ v_pc = "load_log"
    /\ LET r == StatsLoadedLog(log_file, ioerr, v_average, v_most_in_1_day) IN
         /\ v_daily_log' = r.log
         /\ v_average' = r.average
         /\ v_most_in_1_day' = r.most
         /\ v_pc' = IF r.raised THEN "crashed" ELSE "load_time"
         /\ v_read' = [v_read EXCEPT !.log = Seen(log_file, ioerr)]
    /\ log_file' = IF log_file.kind \in {"missing", "malformed"}
                   THEN LogContent("dict", EmptyMap)
                   ELSE log_file
    /\ UNCHANGED <<v_total_seconds, v_mode, v_shown, v_prev>>
    /\ UNCHANGED <<clock, time_file, total_seconds, is_running, start_time,
                   daily_log, now, running, event, pc, mode, gen, hist>>
    /\ UNCHANGED svars

\* self.load_log(), line 177 of __init__ and line 211 of display_stats
StatsLoadLogWith(ioerr) ==
    /\ v_mode \in {"ctor", "loop"}
    /\ v_pc = "load_log"
    /\ LET r == StatsLoadedLog(log_file, ioerr, v_average, v_most_in_1_day) IN
         /\ v_daily_log' = r.log
         /\ v_average' = r.average
         /\ v_most_in_1_day' = r.most
         /\ v_pc' = IF r.raised THEN "crashed" ELSE "load_time"
         /\ v_read' = [v_read EXCEPT !.log = Seen(log_file, ioerr)]
    /\ UNCHANGED <<v_total_seconds, v_mode, v_shown, v_prev>>
    /\ UNCHANGED <<tvars, svars>>

\* the load, on a disk whose reads can fail
StatsLoadLog == \E ioerr \in BOOLEAN : StatsLoadLogWith(ioerr)

\* the load, on a disk whose reads succeed
StatsReadLog == StatsLoadLogWith(FALSE)

\* self.load_time(), line 178 of __init__ and line 212 of display_stats
StatsLoadTimeWith(ioerr) ==
    /\ v_mode \in {"ctor", "loop"}
    /\ v_pc = "load_time"
    /\ LET r == StatsLoadedTime(time_file, ioerr, v_total_seconds) IN
         /\ v_total_seconds' = r.val
         /\ v_pc' = IF r.raised THEN "crashed" ELSE AfterStatsLoadTime(v_mode)
         /\ v_read' = [v_read EXCEPT !.time = Seen(time_file, ioerr)]
    /\ v_mode' = "loop"
    /\ UNCHANGED <<v_average, v_most_in_1_day, v_daily_log, v_shown, v_prev>>
    /\ UNCHANGED <<tvars, svars>>

\* the load, on a disk whose reads can fail
StatsLoadTime == \E ioerr \in BOOLEAN : StatsLoadTimeWith(ioerr)

\* the load, on a disk whose reads succeed
StatsReadTime == StatsLoadTimeWith(FALSE)

\* ------------------------------------------------------------- the tiers
\* the labels of the ladders, in the order of the branches; the last one is
\* the label of the final else
TierNames ==
    << "Bronze I", "Bronze II", "Bronze III",
       "Silver I", "Silver II", "Silver III",
       "Gold I", "Gold II", "Gold III",
       "Diamond I", "Diamond II", "Diamond III",
       "Azure I", "Azure II", "Azure III",
       "Prismatic I", "Prismatic II", "Prismatic III",
       "Astral I", "Astral II", "Astral III",
       "Archon" >>

\* the bounds of the conditions on self.average, lines 213-259, in seconds
AverageLadder ==
    << 150, 225, 300, 450, 600, 800, 1000, 1300, 1600, 2000, 2800,
       3600, 4800, 6000, 7200, 9000, 10800, 13200, 15600, 18000, 20400 >>

\* the bounds of the conditions on self.total_seconds, lines 265-311
TotalLadder ==
    << 10000, 20000, 30000, 50000, 75000, 100000, 130000, 170000, 200000,
       275000, 350000, 410000, 500000, 710000, 980000, 1200000, 1500000,
       1900000, 2500000, 3750000, 5000000 >>

\* the bounds of the conditions on self.most_in_1_day, lines 316-362
DayLadder ==
    << 300, 450, 600, 900, 1200, 1600, 2000, 2600, 3200, 4000, 5600,
       7200, 9600, 12000, 14400, 18000, 21600, 26400, 31200, 36000, 40800 >>

\* a condition written with < where the code has <=
BranchTakenStrict(v, bound) == v < bound

\* a condition written the wrong way round
BranchTakenReversed(v, bound) == v >= bound

\* one condition of a ladder: `if value <= bound`
BranchTaken(v, bound) == v <= bound

\* the if/elif chain from branch i on: the number of the first branch whose
\* condition holds, Len(ladder) + 1 for the final else
RECURSIVE BranchFrom(_, _, _)
BranchFrom(ladder, i, v) ==
    IF i > Len(ladder) THEN Len(ladder) + 1
    ELSE IF BranchTaken(v, ladder[i]) THEN i
    ELSE BranchFrom(ladder, i + 1, v)

\* the label printed for v by the chain of a ladder
Tier(ladder, v) == TierNames[BranchFrom(ladder, 1, v)]

\* lines 213-365: the three values are printed with their tiers; keep says
\* whether the display this one replaces is kept for the properties
Show(keep) ==
    /\ v_mode = "loop"
    /\ v_pc = "show"
    /\ v_pc' = "sleep"
    /\ v_shown' = [shown |-> TRUE,
                   average |-> v_average,
                   average_tier |-> Tier(AverageLadder, v_average),
                   total |-> v_total_seconds,
                   total_tier |-> Tier(TotalLadder, v_total_seconds),
                   most |-> v_most_in_1_day,
                   most_tier |-> Tier(DayLadder, v_most_in_1_day)]
    /\ v_prev' = IF keep THEN v_shown ELSE v_prev
    /\ UNCHANGED <<v_total_seconds, v_average, v_most_in_1_day, v_daily_log,
                   v_mode, v_read>>
    /\ UNCHANGED <<tvars, svars>>

\* one display of display_stats
StatsShow == Show(FALSE)

\* the same display, the one before it kept
StatsShowKeep == Show(TRUE)

\* line 368: time.sleep(1), then the next display cycle (line 210)
StatsSleep ==
    /\ v_mode = "loop"
    /\ v_pc = "sleep"
    /\ v_pc' = "load_log"
    /\ UNCHANGED <<v_total_seconds, v_average, v_most_in_1_day, v_daily_log,
                   v_mode, v_read, v_shown, v_prev>>
    /\ UNCHANGED <<tvars, svars>>

\* The viewer next to one execution of the tracker, both on the same two
\* artifacts; every write succeeds.
InitStats ==
    /\ StatsInit(TRUE)
    /\ TrackerInit
    /\ time_file \in {TimeContent("missing", 0), TimeContent("list", 0),
                      TimeContent("object", 2 * UnitsPerSec)}
    /\ log_file \in {LogContent("malformed", EmptyMap), LogContent("list", EmptyMap),
                     LogContent("dict", [d \in {0} |-> 2])}

NextStats ==
    \/ Tick
    \/ StatsLoadLog
    \/ StatsLoadTime
    \/ StatsShow
    \/ StatsSleep

SpecStats == InitStats /\ [][NextStats]_vars

\* The viewer next to one execution of the tracker, on the artifacts an
\* earlier execution of the tracker left; every write and every read of a
\* complete file succeeds.
InitView ==
    /\ StatsInit(TRUE)
    /\ TrackerInit
    /\ time_file = TimeContent("object", 2 * UnitsPerSec)
    /\ log_file = LogContent("dict", [d \in {0} |-> 2])

NextView ==
    \/ Tick
    \/ StatsReadLog
    \/ StatsReadTime
    \/ StatsShow
    \/ StatsSleep

SpecView == InitView /\ [][NextView]_vars

\* The viewer alone, on every kind of artifact and on a disk whose reads can
\* fail; no tracker runs.
InitLook ==
    /\ StatsInit(TRUE)
    /\ TrackerInit

NextLook ==
    \/ StatsLoadLog
    \/ StatsLoadTime
    \/ StatsShow
    \/ StatsSleep

SpecLook == InitLook /\ [][NextLook]_vars

\* The artifacts that put the three displayed values on a bound of their
\* ladders or just above it: a total of TotalLadder[i] seconds or of one
\* second more, and a log of two days whose larger
\* day is DayLadder[i] or above it (its average is then AverageLadder[i] or
\* above it); and the artifacts of a tracker that never saw the process.
TierArtifacts ==
    { [time |-> TimeContent("object", TotalLadder[i] * UnitsPerSec + o),
       log  |-> LogContent("dict", [d \in {0, 1} |->
                    IF d = 0 THEN DayLadder[i] + 2 * (o \div UnitsPerSec) ELSE 0])] :
        i \in 1..Len(TotalLadder), o \in {0, UnitsPerSec} }
    \cup { [time |-> TimeContent("object", 0),
            log  |-> LogContent("dict", EmptyMap)] }

\* while the viewer sleeps, a tracker or the user replaces both artifacts
Rewrite ==
    /\ v_mode = "loop"
    /\ v_pc = "sleep"
    /\ \E a \in TierArtifacts :
         /\ time_file' = a.time
         /\ log_file' = a.log
    /\ UNCHANGED <<clock, total_seconds, is_running, start_time, daily_log, now,
                   running, event, pc, mode, gen, hist>>
    /\ UNCHANGED <<vvars, svars>>

\* The viewer alone, on a readable disk, over artifacts of every tier.
InitTiers ==
    /\ StatsInit(TRUE)
    /\ TrackerInit
    /\ \E a \in TierArtifacts :
         /\ time_file = a.time
         /\ log_file = a.log

NextTiers ==
    \/ StatsReadLog
    \/ StatsReadTime
    \/ StatsShowKeep
    \/ StatsSleep
    \/ Rewrite

SpecTiers == InitTiers /\ [][NextTiers]_vars

\* ================================================================ claims

\* C1. In one continuous execution no step of the tracker loop decreases the
\* in-memory total_seconds: after each tick it is greater than or equal to
\* its value after the previous tick (the clock never goes back).
C1_TotalNeverDecreases ==
    [][(mode = "loop" /\ mode' = "loop") => total_seconds' >= total_seconds]_vars

\* C1 witness: a third tick that raised a total already raised by the second
C1_Witness ==
    /\ mode = "loop"
    /\ hist.ticks >= 3
    /\ total_seconds > hist.pre_total
    /\ hist.pre_total > hist.loaded
    /\ hist.loaded > 0

\* C2. Restart continuity: a tracker constructed from the artifact that holds
\* the persisted total T, which sees the process start at t0, has at every
\* later tick of that session total_seconds = T + (now - t0), however long it
\* was down or Idle before t0.
C2_RestartContinuity ==
    ( /\ gen >= 1
      /\ mode = "loop"
      /\ hist.read_time.kind = "object"
      /\ hist.sessions = 1
      /\ is_running )
    => total_seconds = hist.read_time.val + (now - hist.sess_t1)

\* C2 witness: the second tracker loaded what the first one had accumulated
\* and persisted, stayed Idle for a tick, and is one interval into its session
C2_Witness ==
    /\ gen = 1
    /\ mode = "loop"
    /\ hist.read_time.kind = "object"
    /\ hist.read_time.val = hist.prev_total
    /\ hist.prev_total > 2 * UnitsPerSec
    /\ hist.sessions = 1
    /\ is_running
    /\ hist.ticks >= 3
    /\ now > hist.sess_t1

\* C3. For one Idle->Active->Idle session detected at t1 and ended at t2, the
\* total after the stop tick is the total before the start tick plus t2 - t1.
C3_SessionAddsElapsed ==
    (mode = "loop" /\ event = "stopped")
    => total_seconds = hist.sess_base + (now - hist.sess_t1)

\* C3 witness: a session of two intervals on top of a loaded total
C3_Witness ==
    /\ mode = "loop"
    /\ event = "stopped"
    /\ hist.sess_base > 0
    /\ now - hist.sess_t1 >= 2 * PollUnits

\* the case of C4: three ticks, all running, exactly one second apart, on one
\* calendar day, from total 0, Idle and an empty daily log
C4_Case ==
    /\ mode = "loop"
    /\ pc = "sleep"
    /\ hist.ticks = 3
    /\ hist.all_running
    /\ hist.exact
    /\ hist.loaded = 0
    /\ hist.loaded_log = LogContent("dict", EmptyMap)
    /\ Today(hist.first_now) = Today(now)

\* C4 as stated: after those three ticks the total is 3 seconds and today's
\* bucket is 3.
C4_Original ==
    C4_Case => /\ total_seconds = 3 * UnitsPerSec
               /\ Get(daily_log.map, Today(now)) = 3

\* C4 as amended: after those three ticks the total is 2 seconds (the time
\* between the first and the third tick) and today's bucket is 3.
C4_ThreeTicks ==
    C4_Case => /\ total_seconds = 2 * UnitsPerSec
               /\ Get(daily_log.map, Today(now)) = 3

\* C4 witness: the three ticks have been processed
C4_Witness == C4_Case /\ is_running /\ time_file = DumpTime(total_seconds)

\* C5. After every tick that leaves the tracker Active, total_seconds is the
\* tick's now minus start_time; while Idle, total_seconds is the value computed
\* by the tick that made it Idle, or the loaded value if it was never Active.
C5_ActiveAnchoredIdleFrozen ==
    (mode \in {"ctor", "loop"})
    => IF is_running
       THEN total_seconds = now - start_time[1]
       ELSE total_seconds = hist.frozen

\* C5 witness: Idle again at a later tick, holding what the stop tick computed
C5_Witness ==
    /\ mode = "loop"
    /\ ~is_running
    /\ hist.sessions >= 1
    /\ event = "none"
    /\ total_seconds > hist.loaded
    /\ now > hist.sess_t1 + PollUnits

\* C6 as stated: every tick that observes running = false, Idle or Active,
\* leaves total_seconds as it was before the tick.
C6_Original ==
    (mode = "loop" /\ hist.ticks >= 1 /\ ~running)
    => total_seconds = hist.pre_total

\* C6 as amended: a tick that observes running = false leaves total_seconds as
\* it was when the tracker was Idle; when it was Active (the stop tick) it sets
\* total_seconds to now - start_time, which is not less than before.
C6_NotRunningTick ==
    (mode = "loop" /\ hist.ticks >= 1 /\ ~running)
    => IF hist.pre_running
       THEN /\ total_seconds = now - start_time[1]
            /\ total_seconds >= hist.pre_total
       ELSE total_seconds = hist.pre_total

\* C6 witness: an Idle tick after a session, and one stop tick that added time
C6_Witness ==
    /\ mode = "loop"
    /\ ~running
    /\ ~hist.pre_running
    /\ hist.sessions >= 1
    /\ total_seconds > hist.loaded
    /\ hist.ticks >= 3

\* C7 as stated: after every completed tick the persisted total equals the
\* in-memory total, and a tracker killed at any point (ticks exactly one
\* polling interval apart) reloads a total at most one polling interval
\* smaller than the in-memory total at the kill.
C7_Original ==
    /\ (mode = "loop" /\ pc = "sleep") => time_file = DumpTime(total_seconds)
    /\ ( /\ gen >= 1
         /\ pc = "load_log"
         /\ hist.prev_ended = "killed"
         /\ hist.prev_clean
         /\ hist.read_time.kind # "unreadable" )
       => hist.prev_total - total_seconds <= PollUnits

\* what a loader must treat as "no usable artifact": no file, an unreadable
\* file, a file that is not JSON, JSON that is not an object
BadKinds == {"missing", "unreadable", "malformed", "list"}

\* C8 as stated: no load ever raises, and a load from a missing, unreadable or
\* malformed artifact leaves the loader with the default (total 0, log {}),
\* in the tracker's __init__ and in every load of the viewer.
C8_Original ==
    /\ pc # "crashed"
    /\ v_pc # "crashed"
    /\ (pc = "load_log" /\ hist.read_time.kind \in BadKinds) => total_seconds = 0
    /\ (pc = "loop" /\ hist.ticks = 0 /\ log_file.kind \in BadKinds)
       => daily_log = LogContent("dict", EmptyMap)
    /\ v_read.time \in BadKinds => v_total_seconds = 0
    /\ v_read.log \in BadKinds => v_daily_log = LogContent("dict", EmptyMap)

\* C9 as stated: an artifact whose write failed in one tick is written again by
\* the next tick, so that a next tick without write failures leaves it equal to
\* the in-memory value.
C9_Original ==
    (mode = "loop" /\ pc = "sleep" /\ hist.failed = {})
    => /\ "time" \in hist.prev_failed => time_file = DumpTime(total_seconds)
       /\ "log" \in hist.prev_failed => log_file = DumpLog(daily_log)

\* C10. Every end of the tracker loop, by Ctrl+C or by a fault in a tick, comes
\* after save_time and save_log were both called in the handler, and each one
\* that succeeded left its artifact equal to the in-memory value.
C10_FinalSaves ==
    (pc = "done")
    => /\ hist.ended \in {"interrupt", "fault"}
       /\ hist.final_attempts = {"time", "log"}
       /\ "time" \in hist.final_ok => time_file = DumpTime(total_seconds)
       /\ "log" \in hist.final_ok => log_file = DumpLog(daily_log)

\* C10 witness: a fault ended the loop of a tracker that had accumulated time,
\* and both final saves succeeded
C10_Witness ==
    /\ pc = "done"
    /\ hist.ended = "fault"
    /\ hist.final_ok = {"time", "log"}
    /\ total_seconds > hist.loaded

\* an entry of the process table whose name reads as the target, letter case
\* aside
Matches(entry) ==
    /\ entry \in ProcNames
    /\ Lower(entry) = Lower(KRITA_PROCESS_NAME)

\* C11 as stated: the process check answers true exactly when some entry of
\* the process table has the target's name, letter case aside, and false
\* otherwise; an entry that vanished, is inaccessible or has no readable name
\* is skipped and never makes the check fail.
C11_Original ==
    scan_result # "none"
    => /\ scan_result \in {"true", "false"}
       /\ scan_result = "true"
            <=> \E i \in 1..Len(scan_procs) : Matches(scan_procs[i])

\* the position of a label in Bronze I < ... < Astral III < Archon
Rank(tier) == CHOOSE r \in 1..Len(TierNames) : TierNames[r] = tier

\* each bound is below the next one
Ascending(ladder) ==
    \A i \in 1..(Len(ladder) - 1) : ladder[i] < ladder[i + 1]

\* tier is the entry of the ladder with the smallest bound that v does not
\* exceed, and Archon exactly when v exceeds the highest bound
SmallestBound(ladder, v, tier) ==
    LET r == Rank(tier) IN
    /\ tier \in { TierNames[i] : i \in 1..Len(TierNames) }
    /\ r <= Len(ladder)
         => /\ v <= ladder[r]
            /\ \A j \in 1..Len(ladder) : v <= ladder[j] => ladder[r] <= ladder[j]
    /\ tier = "Archon" <=> v > ladder[Len(ladder)]
    /\ tier = "Archon" <=> r = Len(ladder) + 1

\* C12. On each of the three ladders (average per day, lifetime total, most
\* in one day) the tier displayed for a value v is the entry with the
\* smallest bound b such that v <= b, and Archon exactly when v exceeds the
\* highest bound; the bounds of each ladder are strictly ascending.
C12_TierIsSmallestBound ==
    /\ Ascending(AverageLadder)
    /\ Ascending(TotalLadder)
    /\ Ascending(DayLadder)
    /\ v_shown.shown
         => /\ SmallestBound(AverageLadder, v_shown.average, v_shown.average_tier)
            /\ SmallestBound(TotalLadder, v_shown.total, v_shown.total_tier)
            /\ SmallestBound(DayLadder, v_shown.most, v_shown.most_tier)

\* C12 witness: a display of three values that sit exactly on a bound in the
\* middle of their ladders, after a display of three values above every bound
C12_Witness ==
    /\ v_shown.shown
    /\ v_shown.average = AverageLadder[5]
    /\ v_shown.average_tier = "Silver II"
    /\ v_shown.total = TotalLadder[5]
    /\ v_shown.total_tier = "Silver II"
    /\ v_shown.most = DayLadder[5]
    /\ v_shown.most_tier = "Silver II"
    /\ v_prev.shown
    /\ v_prev.average > AverageLadder[Len(AverageLadder)]
    /\ v_prev.average_tier = "Archon"
    /\ v_prev.total_tier = "Archon"
    /\ v_prev.most_tier = "Archon"

\* of two values on one ladder the smaller one has the lower or the same tier
Monotone(v1, tier1, v2, tier2) == v1 < v2 => Rank(tier1) <= Rank(tier2)

\* a displayed value has one of the twenty-two tiers
Classified(v, tier) ==
    /\ v >= 0
    /\ Cardinality({ r \in 1..Len(TierNames) : TierNames[r] = tier }) = 1

\* C13. The classification is total and monotone on each ladder: every
\* displayed value has exactly one tier, and of the values of two displays
\* the smaller one never has the higher tier.
C13_TotalAndMonotone ==
    /\ v_shown.shown
         => /\ Classified(v_shown.average, v_shown.average_tier)
            /\ Classified(v_shown.total, v_shown.total_tier)
            /\ Classified(v_shown.most, v_shown.most_tier)
    /\ (v_shown.shown /\ v_prev.shown)
         => /\ Monotone(v_prev.average, v_prev.average_tier,
                        v_shown.average, v_shown.average_tier)
            /\ Monotone(v_shown.average, v_shown.average_tier,
                        v_prev.average, v_prev.average_tier)
            /\ Monotone(v_prev.total, v_prev.total_tier,
                        v_shown.total, v_shown.total_tier)
            /\ Monotone(v_shown.total, v_shown.total_tier,
                        v_prev.total, v_prev.total_tier)
            /\ Monotone(v_prev.most, v_prev.most_tier,
                        v_shown.most, v_shown.most_tier)
            /\ Monotone(v_shown.most, v_shown.most_tier,
                        v_prev.most, v_prev.most_tier)

\* C13 witness: two displays, the later one of larger values: the total moved
\* from the last bound to above it and changed tier, the other two values
\* grew as well
C13_Witness ==
    /\ v_shown.shown
    /\ v_prev.shown
    /\ v_prev.total = TotalLadder[Len(TotalLadder)]
    /\ v_prev.total_tier = "Astral III"
    /\ v_shown.total > v_prev.total
    /\ v_shown.total_tier = "Archon"
    /\ v_prev.average < v_shown.average
    /\ Rank(v_prev.average_tier) < Rank(v_shown.average_tier)
    /\ v_prev.most < v_shown.most
    /\ Rank(v_prev.most_tier) < Rank(v_shown.most_tier)

\* sum(values) / count(values) truncated to an integer, 0 for an empty log
AverageOf(m) ==
    IF DOMAIN m = {} THEN 0
    ELSE TruncDiv(SumOver(m, DOMAIN m), Cardinality(DOMAIN m))

\* max(values), 0 for an empty log
MostOf(m) ==
    IF DOMAIN m = {} THEN 0
    ELSE CHOOSE x \in { m[d] : d \in DOMAIN m } : \A d \in DOMAIN m : m[d] <= x

\* C14 as stated: after every reload the displayed average and one-day
\* maximum are the ones of the daily log the viewer holds after that reload,
\* both 0 when that log is empty (also when it fell back to {} because the
\* artifact was missing or unreadable); nothing is carried over from an
\* earlier cycle.
C14_Original ==
    (v_mode = "loop" /\ v_pc = "sleep" /\ v_shown.shown)
    => /\ v_shown.average = AverageOf(v_daily_log.map)
       /\ v_shown.most = MostOf(v_daily_log.map)

\* C15. Across the ticks of the tracker, also across a change of calendar
\* day, no key of the daily log is removed, no value of an existing key
\* decreases, and a step changes or adds at most the key of the current date.
C15_LogOnlyGrows ==
    [][ (mode # "ctor" /\ daily_log.kind = "dict")
        => /\ daily_log'.kind = "dict"
           /\ \A k \in DOMAIN daily_log.map :
                 /\ k \in DOMAIN daily_log'.map
                 /\ daily_log'.map[k] >= daily_log.map[k]
                 /\ k # Today(clock) => daily_log'.map[k] = daily_log.map[k]
           /\ DOMAIN daily_log'.map \subseteq DOMAIN daily_log.map \cup {Today(clock)} ]_vars

\* C15 witness: a loaded bucket was raised on the first day, and after the
\* change of day a second key was added and raised while the first one stayed
C15_Witness ==
    /\ mode = "loop"
    /\ daily_log.kind = "dict"
    /\ 0 \in DOMAIN hist.loaded_log.map
    /\ DOMAIN daily_log.map = {0, 1}
    /\ daily_log.map[0] > hist.loaded_log.map[0]
    /\ daily_log.map[1] >= 2
    /\ Today(clock) = 1

\* the log artifact before the write that is under way, if one is
OldLog == IF pc = "save_log_dump" THEN hist.pre_log_file ELSE log_file

\* the log artifact as it is once the write that is under way completes
NewLog == IF pc = "save_log_dump" THEN DumpLog(daily_log) ELSE log_file

\* the same for the total
OldTime == IF pc = "save_time_dump" THEN hist.pre_time_file ELSE time_file

NewTime == IF pc = "save_time_dump" THEN DumpTime(total_seconds) ELSE time_file

\* C16 as stated: the tracker writes an artifact by truncating it and then
\* writing it, and the viewer reloads at any point of that. The viewer never
\* fails; the values a reload leaves for the display are those of the old
\* content, of the new content, or the default 0; and when a write of the
\* tracker has completed the artifacts hold exactly what the tracker wrote.
C16_Original ==
    [][ /\ v_pc' # "crashed"
        /\ (v_pc = "load_log" /\ v_pc' # "load_log")
             => /\ v_average' \in {AverageOf(OldLog.map), AverageOf(NewLog.map), 0}
                /\ v_most_in_1_day' \in {MostOf(OldLog.map), MostOf(NewLog.map), 0}
        /\ (v_pc = "load_time" /\ v_pc' # "load_time")
             => v_total_seconds' \in {TruncDiv(OldTime.val, UnitsPerSec),
                                      TruncDiv(NewTime.val, UnitsPerSec), 0}
        /\ (pc = "save_time_dump" /\ pc' # "save_time_dump")
             => time_file' = DumpTime(total_seconds)
        /\ (pc = "save_log_dump" /\ pc' # "save_log_dump")
             => log_file' = DumpLog(daily_log)
        /\ (pc' = "sleep" /\ mode' = "loop")
             => /\ time_file' = DumpTime(total_seconds')
                /\ is_running' => log_file' = DumpLog(daily_log') ]_vars

\* C17. No step of the viewer (the loads of its construction, the reload of
\* the log, the reload of the total, the display, the pause) changes either
\* artifact: none is written, created, truncated or deleted.
C17_ViewerNeverWrites ==
    [][ vvars' # vvars
        => /\ time_file' = time_file
           /\ log_file' = log_file ]_vars

\* C17 witness: the viewer was constructed and displayed a whole cycle where
\* there is no log and the total cannot be parsed, and both are as they were
C17_Witness ==
    /\ v_mode = "loop"
    /\ v_shown.shown
    /\ v_pc = "load_log"
    /\ v_read.log = "missing"
    /\ v_read.time = "malformed"
    /\ log_file.kind = "missing"
    /\ time_file.kind = "malformed"

\* C18 as stated: every value the tracker writes into the total_seconds field
\* of the total-time artifact is a whole, non-negative number of seconds,
\* whatever the timestamps of the ticks are.
C18_Original ==
    [][ (pc = "save_time_dump" /\ time_file' # time_file)
        => /\ time_file'.kind = "object"
           /\ time_file'.val >= 0
           /\ time_file'.val % UnitsPerSec = 0 ]_vars

\* today's bucket of the log is one above what it was before the tick, and
\* every other bucket is what it was
BucketRaised(before, after, d) ==
    /\ after.kind = "dict"
    /\ DOMAIN after.map = DOMAIN before.map \cup {d}
    /\ after.map[d] = Get(before.map, d) + 1
    /\ \A k \in DOMAIN before.map : k # d => after.map[k] = before.map[k]

\* a tick of the loop is over, and it was taken Idle with the process running
StartTickDone ==
    /\ mode = "loop"
    /\ pc = "sleep"
    /\ event = "started"
    /\ ~hist.pre_running
    /\ running

\* C19 as stated: a tick taken Idle that sees the process running only sets
\* the anchor to now - AccumulatedTime, reports "started" and becomes Active;
\* AccumulatedTime and the daily log are after the tick what they were before.
C19_Original ==
    StartTickDone
    => /\ is_running
       /\ start_time = <<now - hist.pre_total>>
       /\ total_seconds = hist.pre_total
       /\ daily_log = hist.pre_log

\* C19, amended: such a tick sets the anchor to now - AccumulatedTime, reports
\* "started", becomes Active and leaves AccumulatedTime as it was; it ends
\* Active, so it also raises today's bucket of the daily log by one and
\* writes the log, every other bucket staying as it was.
C19_StartTick ==
    StartTickDone
    => /\ is_running
       /\ start_time = <<now - hist.pre_total>>
       /\ total_seconds = hist.pre_total
       /\ BucketRaised(hist.pre_log, daily_log, Today(now))
       /\ log_file = DumpLog(daily_log)

\* C19 witness: a start tick after an Idle tick, on a loaded total and a
\* loaded bucket
C19_Witness ==
    /\ StartTickDone
    /\ hist.ticks >= 2
    /\ hist.pre_total > 0
    /\ Today(now) \in DOMAIN hist.pre_log.map
    /\ hist.pre_log.map[Today(now)] >= 2
    /\ daily_log.map[Today(now)] > hist.pre_log.map[Today(now)]

\* C20. The increment of the daily log runs exactly once on each tick that
\* ends Active: today's bucket is one higher, the others are as before, and
\* the log has been written. It does not run on a tick that ends Idle: the
\* log in memory and the log artifact are what they were before the tick.
C20_IncrementOncePerActiveTick ==
    (mode = "loop" /\ pc = "sleep")
    => IF is_running
       THEN /\ BucketRaised(hist.pre_log, daily_log, Today(now))
            /\ log_file = DumpLog(daily_log)
       ELSE /\ daily_log = hist.pre_log
            /\ log_file = hist.pre_log_file

\* C20 witness: the tick that ends a session of two Active ticks; the bucket
\* those two raised is in the artifact and this tick left it alone
C20_Witness ==
    /\ mode = "loop"
    /\ pc = "sleep"
    /\ event = "stopped"
    /\ ~is_running
    /\ hist.ticks >= 3
    /\ log_file.kind = "dict"
    /\ Today(now) \in DOMAIN log_file.map
    /\ log_file.map[Today(now)] >= Get(hist.loaded_log.map, Today(now)) + 2
    /\ log_file = hist.pre_log_file

\* a tick of the loop is over, and it was taken Idle with the process absent
IdleTickDone ==
    /\ mode = "loop"
    /\ pc = "sleep"
    /\ ~hist.pre_running
    /\ ~running

\* C21. A tick taken Idle that does not see the process leaves the tracker
\* Idle and leaves AccumulatedTime, the anchor and the daily log in memory as
\* they were, however long ago the previous tick was; it reports nothing,
\* writes the unchanged total again and leaves the log artifact alone.
C21_IdleTickIsNoOp ==
    IdleTickDone
    => /\ ~is_running
       /\ event = "none"
       /\ total_seconds = hist.pre_total
       /\ start_time = hist.pre_start
       /\ daily_log = hist.pre_log
       /\ time_file = DumpTime(hist.pre_total)
       /\ log_file = hist.pre_log_file

\* C21 witness: an Idle tick after a session that has ended, in an execution
\* whose ticks were not all one second apart; the anchor of that session is
\* still set
C21_Witness ==
    /\ IdleTickDone
    /\ hist.stops >= 1
    /\ start_time # << >>
    /\ total_seconds > 0
    /\ ~hist.exact
    /\ DOMAIN daily_log.map # {}

\* C22. In one execution the reports "started" and "stopped" alternate,
\* "started" first: the tick that reports "started" is the one that moves
\* Idle to Active, the tick that reports "stopped" the one that moves Active
\* to Idle, the number of "started" is the number of "stopped" or one more,
\* and the tracker is Active exactly when it is one more.
C22_EventsAlternate ==
    /\ event = "started" <=> (~hist.pre_running /\ is_running)
    /\ event = "stopped" <=> (hist.pre_running /\ ~is_running)
    /\ hist.stops <= hist.sessions
    /\ hist.sessions <= hist.stops + 1
    /\ is_running <=> hist.sessions = hist.stops + 1

\* C22 witness: started, stopped, started, stopped
C22_Witness ==
    /\ mode = "loop"
    /\ event = "stopped"
    /\ hist.sessions = 2
    /\ hist.stops = 2
    /\ ~is_running

\* C23. In one execution that starts from a total of 0 and an empty daily
\* log, whose ticks are exactly one second apart and whose writes succeed,
\* after every tick the sum of the buckets of the daily log is the total in
\* seconds when the tracker is Idle and the total plus one when it is Active.
C23_LogSumFollowsTotal ==
    ( /\ mode = "loop"
      /\ pc = "sleep"
      /\ hist.exact
      /\ hist.loaded = 0
      /\ hist.loaded_log = LogContent("dict", EmptyMap) )
    => /\ daily_log.kind = "dict"
       /\ SumOver(daily_log.map, DOMAIN daily_log.map) * UnitsPerSec
            = total_seconds + (IF is_running THEN UnitsPerSec ELSE 0)

\* C23 witness: the second session of such an execution, on the day after
\* the first one
C23_Witness ==
    /\ mode = "loop"
    /\ pc = "sleep"
    /\ hist.exact
    /\ hist.loaded = 0
    /\ hist.loaded_log = LogContent("dict", EmptyMap)
    /\ hist.sessions = 2
    /\ is_running
    /\ Cardinality(DOMAIN daily_log.map) = 2
    /\ total_seconds >= 2 * UnitsPerSec

====
